---- MODULE Spec2Model ----
(***************************************************************************)
(* Model of src/python/summarizer_tool.py: the command line entry point    *)
(* main() and the class SummaryGenerator (generate_summaries,              *)
(* generate_single_summary, build_analysis_prompt, save_summary).          *)
(*                                                                         *)
(* Text is modelled as sequences of one-character strings, a path as a     *)
(* record [abs, parts] whose parts are names (pathlib's pure paths), the   *)
(* output tree as a set of directories and a map from file paths to what   *)
(* was written.  An exception is the name of its type.                     *)
(***************************************************************************)
EXTENDS Integers, Sequences, FiniteSets, TLC

VARIABLES
    pc,            \* position of the single thread of control
    argKey,        \* args.api_key
    envKey,        \* os.environ.get('ANTHROPIC_API_KEY'), None until main asks for it
    apiKey,        \* main's api_key
    listOpened,    \* open(args.files) has been executed
    listShape,     \* what the list held: "unread", "empty", "blank" or "entries"
    files,         \* main's files: the stripped non-blank lines
    clientCreated, \* anthropic.Anthropic(api_key=...) has been constructed
    idx,           \* enumerate index of generate_summaries (1-based)
    stage,         \* per list entry: how far its processing has come
    rel_path,      \* rel_path of the current entry
    content,       \* content read by generate_single_summary
    prompt,        \* prompt built by build_analysis_prompt
    summary,       \* text returned by generate_single_summary
    calls,         \* arguments of the generate_single_summary invocations
    apiLog,        \* requests passed to client.messages.create
    outDirs,       \* directories that exist below the workspace
    outFiles,      \* files written: path -> [kind, data, writers]
    stderr,        \* lines printed to sys.stderr
    exitStatus     \* the process exit status, -1 while running

vars == <<pc, argKey, envKey, apiKey, listOpened, listShape, files,
          clientCreated, idx, stage, rel_path, content, prompt, summary,
          calls, apiLog, outDirs, outFiles, stderr, exitStatus>>

----------------------------------------------------------------------------
(* Bounds of the model *)

\* most lines the file list holds
MaxLines == 2

\* content lengths explored on each side of the prompt's character budget
MaxNear == 2

----------------------------------------------------------------------------
(* Text *)

Whitespace == {" ", "\t", "\n"}

Dot == "."

Slash == "/"

MdSuffix == <<".", "m", "d">>

JsonSuffix == <<".", "j", "s", "o", "n">>

\* F(x), with x evaluated once
Let(x, F(_)) == CHOOSE r \in {F(v) : v \in {x}} : TRUE

Take(s, n) == SubSeq(s, 1, IF n < Len(s) THEN n ELSE Len(s))

Drop(s, n) == SubSeq(s, n + 1, Len(s))

\* str.rfind: the last (1-based) index of c in s, 0 when there is none
RFind(s, c) ==
    IF \E i \in 1..Len(s) : s[i] = c
    THEN CHOOSE i \in 1..Len(s) : s[i] = c /\ \A j \in (i+1)..Len(s) : s[j] # c
    ELSE 0

\* str.strip(): leading and trailing whitespace removed
Strip(s) ==
    IF \A i \in 1..Len(s) : s[i] \in Whitespace
    THEN <<>>
    ELSE LET first == CHOOSE i \in 1..Len(s) :
                          s[i] \notin Whitespace /\ \A j \in 1..(i-1) : s[j] \in Whitespace
             last  == CHOOSE i \in 1..Len(s) :
                          s[i] \notin Whitespace /\ \A j \in (i+1)..Len(s) : s[j] \in Whitespace
         IN SubSeq(s, first, last)

----------------------------------------------------------------------------
(* pathlib: pure paths *)

\* where the parts of s begin: a character that is no slash, at the start or after a slash
PartStarts(s) == {i \in 1..Len(s) : s[i] # Slash /\ (i = 1 \/ s[i - 1] = Slash)}

\* the part that begins at i runs up to the next slash or the end
PartFrom(s, i) ==
    SubSeq(s, i, CHOOSE j \in i..Len(s) :
                    /\ \A k \in i..j : s[k] # Slash
                    /\ (j = Len(s) \/ s[j + 1] = Slash))

\* str.split('/') without the empty parts
SplitSlash(s) ==
    Let(s, LAMBDA t :
        Let(PartStarts(t), LAMBDA starts :
            [n \in 1..Cardinality(starts) |->
                PartFrom(t, CHOOSE i \in starts :
                                Cardinality({j \in starts : j < i}) = n - 1)]))

IsCurDir(n) == n = <<Dot>>

\* Path(text): the parts between slashes, empty parts and "." dropped
PathOf(s) ==
    Let(s, LAMBDA t :
        [abs   |-> t # <<>> /\ t[1] = Slash,
         parts |-> SelectSeq(SplitSlash(t), LAMBDA n : ~IsCurDir(n))])

\* '/'.join(ps[k:]), counting from 1
RECURSIVE JoinFrom(_, _)
JoinFrom(ps, k) ==
    IF k > Len(ps) THEN <<>>
    ELSE IF k = Len(ps) THEN ps[k]
    ELSE ps[k] \o <<Slash>> \o JoinFrom(ps, k + 1)

\* str(path)
Str(p) ==
    Let(p, LAMBDA q :
        IF q.parts = <<>> THEN (IF q.abs THEN <<Slash>> ELSE <<Dot>>)
        ELSE (IF q.abs THEN <<Slash>> ELSE <<>>) \o JoinFrom(q.parts, 1))

\* path / other, for a relative other
Join(p, q) ==
    Let(q, LAMBDA other :
        IF other.abs THEN other ELSE [abs |-> p.abs, parts |-> p.parts \o other.parts])

Name(p) == Let(p, LAMBDA q : IF q.parts = <<>> THEN <<>> ELSE q.parts[Len(q.parts)])

Parent(p) ==
    Let(p, LAMBDA q :
        IF q.parts = <<>> THEN q
        ELSE [abs |-> q.abs, parts |-> SubSeq(q.parts, 1, Len(q.parts) - 1)])

\* a name is split at its last dot, unless that dot leads or ends the name
HasSuffixAt(name, i) == 1 < i /\ i < Len(name)

\* PurePath.suffix of a name
Suffix(name) ==
    Let(name, LAMBDA n :
        Let(RFind(n, Dot), LAMBDA i :
            IF HasSuffixAt(n, i) THEN SubSeq(n, i, Len(n)) ELSE <<>>))

\* PurePath.stem of a name
Stem(name) ==
    Let(name, LAMBDA n :
        Let(RFind(n, Dot), LAMBDA i :
            IF HasSuffixAt(n, i) THEN SubSeq(n, 1, i - 1) ELSE n))

\* name with old, its suffix, replaced: name + suffix when it has none
Resuffixed(name, old, suffix) ==
    IF old = <<>> THEN name \o suffix
    ELSE SubSeq(name, 1, Len(name) - Len(old)) \o suffix

\* PurePath.with_suffix
WithSuffix(p, suffix) ==
    Let(p, LAMBDA q :
        Let(Name(q), LAMBDA name :
            Let(Suffix(name), LAMBDA old :
                [abs   |-> q.abs,
                 parts |-> SubSeq(q.parts, 1, Len(q.parts) - 1)
                               \o <<Resuffixed(name, old, suffix)>>])))

\* PurePath.relative_to raises ValueError unless other is a prefix with the same anchor
IsUnder(p, other) ==
    /\ p.abs = other.abs
    /\ Len(other.parts) <= Len(p.parts)
    /\ SubSeq(p.parts, 1, Len(other.parts)) = other.parts

RelativeTo(p, other) == [abs |-> FALSE, parts |-> Drop(p.parts, Len(other.parts))]

Ancestors(p) ==
    Let(p, LAMBDA q :
        {[abs |-> q.abs, parts |-> SubSeq(q.parts, 1, k)] : k \in 0..Len(q.parts)})

----------------------------------------------------------------------------
(* build_analysis_prompt *)

\* the character budget of the embedded source text
ContentBudget == 8000

TruncationMarker == <<".", ".", ".", "[", "t", "r", "u", "n", "c", "a", "t", "e", "d", "]">>

Separator == <<" ", " ">>

\* the language tag of the code fence: file_ext[1:] if file_ext else 'txt'
FenceTag(file_ext) == IF file_ext # <<>> THEN Tail(file_ext) ELSE <<"t", "x", "t">>

SourceLineOffByOne(text) ==
    Take(text, ContentBudget) \o Separator
        \o (IF Len(text) >= ContentBudget THEN TruncationMarker ELSE <<>>)

\* the line of the template that embeds the source text:
\* {content[:8000]}  {('...[truncated]' if len(content) > 8000 else '')}
SourceLine(text) ==
    Take(text, ContentBudget) \o Separator
        \o (IF Len(text) > ContentBudget THEN TruncationMarker ELSE <<>>)

\* Path(rel_path).stem, the name bound once
StemOfText(t) == CHOOSE st \in {Stem(name) : name \in {Name(PathOf(t))}} : TRUE

\* the fields the fixed template is filled with
build_analysis_prompt(rel, file_ext, text) ==
    [file    |-> rel,
     heading |-> StemOfText(rel),
     links   |-> rel,
     fence   |-> FenceTag(file_ext),
     source  |-> SourceLine(text)]

NoPrompt == [file |-> <<>>, heading |-> <<>>, links |-> <<>>, fence |-> <<>>, source |-> <<>>]

----------------------------------------------------------------------------
(* The inputs of a run *)

\* an optional string: <<>> is None, <<s>> is the string s
None == <<>>

Some(s) == <<s>>

\* Python truthiness of an optional string
Truthy(o) == o # None /\ o[1] # <<>>

ArgKeys == {None, Some(<<>>), Some(<<"a">>)}

EnvKeys == {None, Some(<<>>), Some(<<"e">>)}

\* --workspace /w
Workspace == <<"/", "w">>

workspace_path == PathOf(Workspace)

\* self.docs_path = self.workspace_path / "docs" / "codebase"
docs_path ==
    Join(Join(workspace_path, PathOf(<<"d", "o", "c", "s">>)),
         PathOf(<<"c", "o", "d", "e", "b", "a", "s", "e">>))

\* the paths a line of the file list may hold
BarTs == <<"/", "w", "/", "s", "/", "b", ".", "t">>

BarJs == <<"/", "w", "/", "s", "/", "b", ".", "j">>

Outside == <<"/", "x", "/", "b", ".", "t">>

NoExt == <<"/", "w", "/", "m">>

Nested == <<"/", "w", "/", "s", "/", "b", ".", "j", "s", "o", "n", "/", "c", ".", "d", ".", "t">>

Entries == {BarTs, BarJs, Outside, NoExt, Nested}

\* the lines of the file list as iteration over the file yields them
LineChoices ==
    {<<"\n">>, <<" ", "\t", "\n">>}
        \cup {e \o <<"\n">> : e \in Entries}
        \cup {<<" ">> \o BarTs \o <<" ", "\n">>, NoExt}

RECURSIVE SeqsUpTo(_, _)
SeqsUpTo(S, n) ==
    IF n = 0 THEN {<<>>}
    ELSE LET shorter == SeqsUpTo(S, n - 1)
         IN shorter \cup {Append(q, x) : q \in {r \in shorter : Len(r) = n - 1}, x \in S}

FileLists == SeqsUpTo(LineChoices, MaxLines)

\* what a source file may hold
Contents == {<<>>, <<"x", "y">>}

\* what the remote model may answer
Summaries == {<<"#", " ", "b">>}

----------------------------------------------------------------------------
(* The state after the interpreter has parsed the command line *)

NoPath == [abs |-> FALSE, parts |-> <<>>]

NoFiles == <<>>

Init ==
    /\ pc = "start"
    /\ argKey \in ArgKeys
    /\ envKey = None
    /\ apiKey = None
    /\ listOpened = FALSE
    /\ listShape = "unread"
    /\ files = <<>>
    /\ clientCreated = FALSE
    /\ idx = 0
    /\ stage = <<>>
    /\ rel_path = NoPath
    /\ content = <<>>
    /\ prompt = NoPrompt
    /\ summary = <<>>
    /\ calls = <<>>
    /\ apiLog = <<>>
    /\ outDirs = Ancestors(workspace_path)
    /\ outFiles = NoFiles
    /\ stderr = <<>>
    /\ exitStatus = -1

----------------------------------------------------------------------------
(* main *)

Log(kind, path, exc) == [kind |-> kind, path |-> path, exc |-> exc]

\* sys.exit(status), or an exception nobody catches (status 1)
Exit(status) == pc' = "exited" /\ exitStatus' = status

\* api_key = args.api_key or os.environ.get('ANTHROPIC_API_KEY')
ResolveKey(arg, env) == IF Truthy(arg) THEN arg ELSE env

\* `or` asks the environment only when args.api_key is None or empty
EnvRead(arg) == IF Truthy(arg) THEN {None} ELSE EnvKeys

KeyRejectedNoneOnly(key) == key = None

\* if not api_key: ... sys.exit(1)
KeyRejected(key) == ~Truthy(key)

ResolveApiKey ==
    /\ pc = "start"
    /\ envKey' \in EnvRead(argKey)
    /\ apiKey' = ResolveKey(argKey, envKey')
    /\ IF KeyRejected(apiKey')
       THEN /\ stderr' = Append(stderr, Log("config", <<>>, "API key required"))
            /\ Exit(1)
       ELSE /\ pc' = "readlist"
            /\ UNCHANGED <<stderr, exitStatus>>
    /\ UNCHANGED <<argKey, listOpened, listShape, files, clientCreated, idx,
                   stage, rel_path, content, prompt, summary, calls, apiLog,
                   outDirs, outFiles>>

ParseFileListUnstripped(lines) == SelectSeq(lines, LAMBDA l : l # <<>>)

\* files = [line.strip() for line in f if line.strip()]
ParseFileList(lines) ==
    SelectSeq([i \in 1..Len(lines) |-> Strip(lines[i])], LAMBDA l : l # <<>>)

IsBlankLine(line) == \A i \in 1..Len(line) : line[i] \in Whitespace

\* what iterating the open list found
Shape(lines) ==
    IF lines = <<>> THEN "empty"
    ELSE IF \A i \in 1..Len(lines) : IsBlankLine(lines[i]) THEN "blank"
    ELSE "entries"

\* if not files: ... sys.exit(1)
ListRejected(fs) == fs = <<>>

ReadFileList ==
    /\ pc = "readlist"
    /\ listOpened' = TRUE
    /\ \/ \* open(args.files) raises and nothing catches it
          /\ stderr' = Append(stderr, Log("traceback", <<>>, "OSError"))
          /\ Exit(1)
          /\ UNCHANGED <<files, listShape, stage>>
       \/ \E lines \in FileLists :
             /\ files' = ParseFileList(lines)
             /\ listShape' = Shape(lines)
             /\ stage' = [i \in 1..Len(files') |-> "Pending"]
             /\ IF ListRejected(files')
                THEN /\ stderr' = Append(stderr, Log("config", <<>>, "No files to process"))
                     /\ Exit(1)
                ELSE /\ pc' = "construct"
                     /\ UNCHANGED <<stderr, exitStatus>>
    /\ UNCHANGED <<argKey, envKey, apiKey, clientCreated, idx, rel_path, content,
                   prompt, summary, calls, apiLog, outDirs, outFiles>>

\* Path.mkdir(parents=True, exist_ok=True) raises when a file is in the way
MkdirBlocked(d) == \E a \in Ancestors(d) : a \in DOMAIN outFiles

\* SummaryGenerator(args.workspace, api_key), then the first statement of
\* generate_summaries: self.docs_path.mkdir(parents=True, exist_ok=True)
CreateGenerator ==
    /\ pc = "construct"
    /\ clientCreated' = TRUE
    /\ \/ /\ ~MkdirBlocked(docs_path)
          /\ outDirs' = outDirs \cup Ancestors(docs_path)
          /\ idx' = 1
          /\ pc' = "loop"
          /\ UNCHANGED <<stderr, exitStatus>>
       \/ \* the directory cannot be created; main catches nothing
          /\ stderr' = Append(stderr, Log("traceback", <<>>, "OSError"))
          /\ Exit(1)
          /\ UNCHANGED <<outDirs, idx>>
    /\ UNCHANGED <<argKey, envKey, apiKey, listOpened, listShape, files, stage,
                   rel_path, content, prompt, summary, calls, apiLog, outFiles>>

CompletionStatusAggregate ==
    IF \E i \in 1..Len(stage) : stage[i] = "Failed" THEN 1 ELSE 0

\* main returns and the interpreter exits normally
CompletionStatus == 0

\* the for loop is exhausted, generate_summaries returns, main prints its two
\* closing lines (stdout is taken to accept them) and returns
Finish ==
    /\ pc = "loop"
    /\ idx > Len(files)
    /\ Exit(CompletionStatus)
    /\ UNCHANGED stderr
    /\ UNCHANGED <<argKey, envKey, apiKey, listOpened, listShape, files, clientCreated,
                   idx, stage, rel_path, content, prompt, summary, calls, apiLog,
                   outDirs, outFiles>>

----------------------------------------------------------------------------
(* SummaryGenerator.generate_summaries: one list entry after the other *)

SetStage(i, st) == stage' = [stage EXCEPT ![i] = st]

\* the names bound while one entry is processed are dead once it is left
DropLocals ==
    /\ rel_path' = NoPath
    /\ content' = <<>>
    /\ prompt' = NoPrompt
    /\ summary' = <<>>

NextIndexSkip(i) == i + 2

\* enumerate(file_paths, 1) hands out the next entry
NextIndex(i) == i + 1

ExceptAbort(i) ==
    /\ idx' = i
    /\ Exit(1)

ExceptRetry(i) ==
    /\ idx' = i
    /\ pc' = "loop"
    /\ UNCHANGED exitStatus

\* except Exception as e: print(..., file=sys.stderr); continue
ExceptContinue(i) ==
    /\ idx' = NextIndex(i)
    /\ pc' = "loop"
    /\ UNCHANGED exitStatus

\* an exception raised while entry i is processed reaches the except clause
Fail(i, exc) ==
    /\ stderr' = Append(stderr, Log("file", files[i], exc))
    /\ SetStage(i, "Failed")
    /\ ExceptContinue(i)
    /\ DropLocals

\* does the entry reach generate_single_summary: relative_to must not raise
Relativizes(file_path) == IsUnder(PathOf(file_path), workspace_path)

\* for idx, file_path in enumerate(file_paths, 1): rel_path = ...relative_to(...);
\* print(...); summary = self.generate_single_summary(file_path)
BeginFile ==
    /\ pc = "loop"
    /\ idx <= Len(files)
    /\ \E path \in {PathOf(files[idx])} :
          IF IsUnder(path, workspace_path)
          THEN /\ rel_path' = RelativeTo(path, workspace_path)
               /\ calls' = Append(calls, files[idx])
               /\ SetStage(idx, "Reading")
               /\ pc' = "read"
               /\ UNCHANGED <<idx, content, prompt, summary, stderr, exitStatus>>
          ELSE /\ Fail(idx, "ValueError")
               /\ UNCHANGED calls
    /\ UNCHANGED <<argKey, envKey, apiKey, listOpened, listShape, files, clientCreated,
                   apiLog, outDirs, outFiles>>

----------------------------------------------------------------------------
(* SummaryGenerator.generate_single_summary *)

\* with open(file_path, 'r', encoding='utf-8', errors='ignore') as f: content = f.read()
ReadFile ==
    /\ pc = "read"
    /\ \/ \E c \in Contents :
             /\ content' = c
             /\ SetStage(idx, "Prompting")
             /\ pc' = "prompt"
             /\ UNCHANGED <<idx, rel_path, prompt, summary, stderr, exitStatus>>
       \/ \* the file is missing or unreadable
          Fail(idx, "OSError")
    /\ UNCHANGED <<argKey, envKey, apiKey, listOpened, listShape, files, clientCreated,
                   calls, apiLog, outDirs, outFiles>>

\* rel_path = ...; file_ext = Path(file_path).suffix; prompt = self.build_analysis_prompt(...)
BuildPrompt ==
    /\ pc = "prompt"
    /\ \E path \in {PathOf(files[idx])} :
          \E rel \in {Str(RelativeTo(path, workspace_path))}, file_ext \in {Suffix(Name(path))} :
             prompt' = build_analysis_prompt(rel, file_ext, content)
    /\ SetStage(idx, "Awaiting")
    /\ pc' = "call"
    /\ UNCHANGED <<argKey, envKey, apiKey, listOpened, listShape, files, clientCreated,
                   idx, rel_path, content, summary, calls, apiLog, outDirs, outFiles,
                   stderr, exitStatus>>

\* the request of self.client.messages.create(...)
Request(i) ==
    [entry       |-> i,
     model       |-> "claude-sonnet-4-20250514",
     max_tokens  |-> 4096,
     temperature |-> 0,
     file        |-> prompt.file]

\* message = self.client.messages.create(...); return message.content[0].text
CallApi ==
    /\ pc = "call"
    /\ apiLog' = Append(apiLog, Request(idx))
    /\ \/ \E text \in Summaries :
             /\ summary' = text
             /\ SetStage(idx, "Writing")
             /\ pc' = "save_md"
             /\ UNCHANGED <<idx, rel_path, content, prompt, stderr, exitStatus>>
       \/ \* the call raises
          Fail(idx, "APIError")
       \/ \* the response holds no content block: message.content[0] raises
          Fail(idx, "IndexError")
    /\ UNCHANGED <<argKey, envKey, apiKey, listOpened, listShape, files, clientCreated,
                   calls, outDirs, outFiles>>

----------------------------------------------------------------------------
(* SummaryGenerator.save_summary *)

\* summary_path = self.docs_path / rel_path.with_suffix('.md')
SummaryPath(rel) == Join(docs_path, WithSuffix(rel, MdSuffix))

MetadataPathAppended(summary_path) ==
    [abs   |-> summary_path.abs,
     parts |-> Parent(summary_path).parts \o <<Name(summary_path) \o JsonSuffix>>]

\* metadata_path = summary_path.with_suffix('.json')
MetadataPath(summary_path) == WithSuffix(summary_path, JsonSuffix)

\* the metadata record; generated_at, a wall clock reading, is left out
Metadata(rel) ==
    [source_file  |-> Str(rel),
     summary_file |-> Str(WithSuffix(rel, MdSuffix))]

Writers(p) == IF p \in DOMAIN outFiles THEN outFiles[p].writers ELSE <<>>

\* open(path, 'w') creates or truncates the file, then data is written to it
Written(p, kind, data, i) ==
    (p :> [kind |-> kind, data |-> data, writers |-> Append(Writers(p), i)]) @@ outFiles

\* summary_path.parent.mkdir(parents=True, exist_ok=True);
\* with open(summary_path, 'w', encoding='utf-8') as f: f.write(summary)
SaveMd ==
    /\ pc = "save_md"
    /\ \E summary_path \in {SummaryPath(rel_path)} : \E dir \in {Parent(summary_path)} :
          IF MkdirBlocked(dir)
          THEN /\ Fail(idx, "OSError")
               /\ UNCHANGED <<outDirs, outFiles>>
          ELSE /\ outDirs' = outDirs \cup Ancestors(dir)
               /\ \/ \* open raises: the path is a directory, or the system refuses
                     /\ Fail(idx, "OSError")
                     /\ UNCHANGED outFiles
                  \/ \* the file is created and the write raises
                     /\ summary_path \notin outDirs'
                     /\ outFiles' = Written(summary_path, "md", <<>>, idx)
                     /\ Fail(idx, "OSError")
                  \/ /\ summary_path \notin outDirs'
                     /\ outFiles' = Written(summary_path, "md", summary, idx)
                     /\ pc' = "save_json"
                     /\ UNCHANGED <<idx, stage, rel_path, content, prompt, summary,
                                    stderr, exitStatus>>
    /\ UNCHANGED <<argKey, envKey, apiKey, listOpened, listShape, files, clientCreated,
                   calls, apiLog>>

\* metadata = {...}; with open(metadata_path, 'w', encoding='utf-8') as f: json.dump(...)
SaveJson ==
    /\ pc = "save_json"
    /\ \E summary_path \in {SummaryPath(rel_path)} :
       \E metadata_path \in {MetadataPath(summary_path)}, metadata \in {Metadata(rel_path)} :
          \/ \* open raises: the path is a directory, or the system refuses
             /\ Fail(idx, "OSError")
             /\ UNCHANGED outFiles
          \/ \* the file is created and the write raises
             /\ metadata_path \notin outDirs
             /\ outFiles' = Written(metadata_path, "json", <<>>, idx)
             /\ Fail(idx, "OSError")
          \/ /\ metadata_path \notin outDirs
             /\ outFiles' = Written(metadata_path, "json", metadata, idx)
             /\ SetStage(idx, "Done")
             /\ idx' = NextIndex(idx)
             /\ pc' = "loop"
             /\ DropLocals
             /\ UNCHANGED <<stderr, exitStatus>>
    /\ UNCHANGED <<argKey, envKey, apiKey, listOpened, listShape, files, clientCreated,
                   calls, apiLog, outDirs>>

----------------------------------------------------------------------------
(* The run *)

Next ==
    \/ ResolveApiKey
    \/ ReadFileList
    \/ CreateGenerator
    \/ BeginFile
    \/ ReadFile
    \/ BuildPrompt
    \/ CallApi
    \/ SaveMd
    \/ SaveJson
    \/ Finish

Spec == Init /\ [][Next]_vars

\* one thread runs the statements in order and every call returns or raises
FairSpec == Spec /\ WF_vars(Next)

----------------------------------------------------------------------------
(* build_analysis_prompt on its own: source texts around the budget *)

CharAt(i) == <<"a", "b", "c">>[(i % 3) + 1]

\* a text of n characters: one repeated character, or a pattern that tells positions apart
Fill(n, patterned) == [i \in 1..n |-> IF patterned THEN CharAt(i) ELSE "x"]

PromptLengths ==
    (0..MaxNear) \cup ((ContentBudget - MaxNear)..(ContentBudget + MaxNear))

PromptContents == {Fill(n, b) : n \in PromptLengths, b \in BOOLEAN}

\* generate_single_summary has read the only entry of the list
PromptInit ==
    /\ pc = "prompt"
    /\ argKey = Some(<<"a">>)
    /\ envKey = None
    /\ apiKey = Some(<<"a">>)
    /\ listOpened = TRUE
    /\ listShape = "entries"
    /\ files \in {<<e>> : e \in {f \in Entries : Relativizes(f)}}
    /\ clientCreated = TRUE
    /\ idx = 1
    /\ stage = <<"Prompting">>
    /\ rel_path = RelativeTo(PathOf(files[1]), workspace_path)
    /\ content \in PromptContents
    /\ prompt = NoPrompt
    /\ summary = <<>>
    /\ calls = files
    /\ apiLog = <<>>
    /\ outDirs = Ancestors(docs_path)
    /\ outFiles = NoFiles
    /\ stderr = <<>>
    /\ exitStatus = -1

PromptNext == BuildPrompt

PromptSpec == PromptInit /\ [][PromptNext]_vars

----------------------------------------------------------------------------
(* Vocabulary of the properties, stated on the text of the list entries *)

WorkspacePrefix == <<"/", "w", "/">>

DocsPrefix == <<"/", "w", "/", "d", "o", "c", "s", "/", "c", "o", "d", "e", "b", "a", "s", "e", "/">>

\* the entry names a file below the workspace root
UnderWorkspaceText(t) ==
    Len(t) > Len(WorkspacePrefix) /\ Take(t, Len(WorkspacePrefix)) = WorkspacePrefix

\* W/docs/codebase/<F with its extension replaced by ext>, for the entry text W/F
ExpectedOutput(t, ext) ==
    LET rel    == Drop(t, Len(WorkspacePrefix))
        slash  == RFind(rel, Slash)
        dot    == RFind(rel, Dot)
        hasExt == dot > slash + 1 /\ dot < Len(rel)
    IN DocsPrefix \o (IF hasExt THEN Take(rel, dot - 1) ELSE rel) \o ext

Final == {"Done", "Failed"}

EntryIds == 1..Len(files)

Begun == {i \in EntryIds : stage[i] # "Pending"}

LoopEntered == idx > 0

LoopLeft == LoopEntered /\ pc = "exited"

WrittenBy(i) ==
    {p \in DOMAIN outFiles : \E k \in 1..Len(outFiles[p].writers) : outFiles[p].writers[k] = i}

WrittenTexts == {Str(p) : p \in DOMAIN outFiles}

FileLogs == SelectSeq(stderr, LAMBDA l : l.kind = "file")

NothingWritten ==
    /\ outFiles = NoFiles
    /\ outDirs = Ancestors(workspace_path)

----------------------------------------------------------------------------
(* C1 *)

\* C1 as stated: when the loop is over, generate_single_summary has been invoked
\* once for every entry of the list, in list order, whether or not the entry
\* lies under the workspace root.
C1_InvokedOncePerEntry == LoopLeft => calls = files

\* C1 amended: the entries are taken up in list order, none skipped and none
\* twice, and generate_single_summary has been invoked exactly once, in list
\* order, for each entry taken up that lies under the workspace root, and for
\* no other entry; when the loop is over every entry has been taken up.
C1_InvokedOncePerWorkspaceEntry ==
    /\ \E k \in 0..Len(files) :
          /\ Begun = 1..k
          /\ calls = SelectSeq(SubSeq(files, 1, k), UnderWorkspaceText)
    /\ LoopLeft => Begun = EntryIds

C1_Witness ==
    /\ pc = "exited"
    /\ Len(files) = 2
    /\ files[1] = Outside
    /\ calls = <<files[2]>>

----------------------------------------------------------------------------
(* C2 *)

\* C2: a failure while one entry is processed never stops the batch: once the
\* loop has been left every entry has been taken up and has ended in Done or
\* Failed, and every failed entry has exactly one line on stderr that holds
\* its path, in the order of the failures.
C2_FailureNeverStopsBatch ==
    /\ LoopLeft => \A i \in EntryIds : stage[i] \in Final
    /\ LET failed == SelectSeq([i \in EntryIds |-> i], LAMBDA i : stage[i] = "Failed")
       IN /\ Len(FileLogs) = Len(failed)
          /\ \A k \in 1..Len(failed) : FileLogs[k].path = files[failed[k]]

C2_Witness ==
    /\ pc = "exited"
    /\ Len(files) = 2
    /\ stage[1] = "Failed"
    /\ stage[2] = "Done"
    /\ Len(FileLogs) = 1

----------------------------------------------------------------------------
(* C3 *)

NoKey(o) == o = None \/ o = Some(<<>>)

\* C3: when --api-key and ANTHROPIC_API_KEY are both absent or empty, the run
\* never gets past the key check: it exits with status 1, the file list is
\* never opened or read, no API client is created, no request is sent and
\* nothing is written.
C3_NoKeyExitsBeforeReading ==
    (NoKey(argKey) /\ NoKey(envKey)) =>
        /\ pc \in {"start", "exited"}
        /\ pc = "exited" => exitStatus = 1
        /\ ~listOpened
        /\ listShape = "unread"
        /\ ~clientCreated
        /\ apiLog = <<>>
        /\ NothingWritten

C3_Witness ==
    /\ pc = "exited"
    /\ argKey = None
    /\ envKey = Some(<<>>)
    /\ exitStatus = 1
    /\ ~listOpened

----------------------------------------------------------------------------
(* C4 *)

\* C4: when the list holds no line, or only blank and whitespace lines, main
\* has printed the error and exited with status 1, and no API client exists,
\* no request was sent, and no directory or file was created.
C4_EmptyListExitsBeforeApi ==
    listShape \in {"empty", "blank"} =>
        /\ pc = "exited"
        /\ exitStatus = 1
        /\ stderr # <<>>
        /\ stderr[Len(stderr)] = Log("config", <<>>, "No files to process")
        /\ files = <<>>
        /\ ~clientCreated
        /\ apiLog = <<>>
        /\ calls = <<>>
        /\ NothingWritten

C4_Witness ==
    /\ listShape = "blank"
    /\ pc = "exited"
    /\ exitStatus = 1

----------------------------------------------------------------------------
(* C5 *)

\* C5: for every entry W/F that reached Done, the files written while it was
\* processed are exactly W/docs/codebase/<F with its extension replaced by .md>,
\* holding the summary, and W/docs/codebase/<F with its extension replaced by
\* .json>, holding the metadata; F's directories are kept.
C5_OutputPaths ==
    \A i \in EntryIds :
        stage[i] = "Done" =>
            /\ Cardinality(WrittenBy(i)) = 2
            /\ \E m, j \in WrittenBy(i) :
                  /\ Str(m) = ExpectedOutput(files[i], MdSuffix)
                  /\ outFiles[m].kind = "md"
                  /\ Str(j) = ExpectedOutput(files[i], JsonSuffix)
                  /\ outFiles[j].kind = "json"

C5_Witness ==
    /\ Len(files) = 2
    /\ files[1] = Nested
    /\ files[2] = NoExt
    /\ stage = <<"Done", "Done">>
    /\ Cardinality(DOMAIN outFiles) = 4

----------------------------------------------------------------------------
(* C6 *)

\* C6 as stated: every output file is written at most once in a run.
C6_EveryOutputWrittenOnce ==
    \A p \in DOMAIN outFiles : Len(outFiles[p].writers) <= 1

----------------------------------------------------------------------------
(* C7 *)

\* C7 as stated: at the end of the run no .md summary exists for an entry
\* whose processing failed.
C7_FailedEntryHasNoSummary ==
    pc = "exited" =>
        \A i \in EntryIds :
            (stage[i] = "Failed" /\ UnderWorkspaceText(files[i])) =>
                ExpectedOutput(files[i], MdSuffix) \notin WrittenTexts

----------------------------------------------------------------------------
(* C8 *)

\* C8: the source line of the prompt starts with the first 8000 characters of
\* the content; for a content of more than 8000 characters the two-space
\* separator of the template and the marker '...[truncated]' follow and
\* nothing else; for a content of at most 8000 characters (8000 and 0
\* included) the whole content stands there, followed by the separator alone.
C8_TruncatesAtBudget ==
    pc = "call" =>
        LET src == prompt.source
            n   == Len(content)
        IN IF n > 8000
           THEN /\ Len(src) = 8000 + 2 + 14
                /\ \A i \in 1..8000 : src[i] = content[i]
                /\ SubSeq(src, 8001, 8002) = <<" ", " ">>
                /\ SubSeq(src, 8003, Len(src)) = TruncationMarker
           ELSE /\ Len(src) = n + 2
                /\ \A i \in 1..n : src[i] = content[i]
                /\ SubSeq(src, n + 1, n + 2) = <<" ", " ">>

C8_Witness ==
    /\ pc = "call"
    /\ Len(content) = 8001
    /\ content[1] # content[2]
    /\ Len(prompt.source) = 8016

----------------------------------------------------------------------------
(* C9 *)

\* C9 as stated: with a resolvable key and a non-empty list the run ends with
\* exit status 0.
C9_StatusZeroOnceListAccepted ==
    (pc = "exited" /\ Truthy(apiKey) /\ files # <<>>) => exitStatus = 0

Escaped == {"config", "traceback"}

\* C9 amended: every run terminates.  With a resolvable key and a non-empty
\* list it ends with status 0, whatever number of entries failed, all of them
\* included, unless an exception escapes main: when docs/codebase cannot be
\* created the run ends with status 1 before any entry is taken up.  Status 1
\* is the outcome exactly of the two configuration errors and of an exception
\* that escapes main (the list cannot be opened, docs/codebase cannot be created).
C9_TerminatesWithStatus ==
    /\ <>(pc = "exited")
    /\ [](pc = "exited" =>
            /\ exitStatus \in {0, 1}
            /\ exitStatus = 1 <=>
                  (stderr # <<>> /\ stderr[Len(stderr)].kind \in Escaped)
            /\ exitStatus = 0 =>
                  /\ Truthy(apiKey)
                  /\ files # <<>>
                  /\ \A i \in EntryIds : stage[i] \in Final
            /\ (exitStatus = 1 /\ Truthy(apiKey) /\ files # <<>>) =>
                  /\ stderr[Len(stderr)] = Log("traceback", <<>>, "OSError")
                  /\ ~LoopEntered
                  /\ \A i \in EntryIds : stage[i] = "Pending")

C9_Witness ==
    /\ pc = "exited"
    /\ exitStatus = 0
    /\ Len(files) = 2
    /\ \A i \in EntryIds : stage[i] = "Failed"

----------------------------------------------------------------------------
(* C10 *)

StageOrder ==
    {<<"Pending", "Reading">>, <<"Reading", "Prompting">>, <<"Prompting", "Awaiting">>,
     <<"Awaiting", "Writing">>, <<"Writing", "Done">>}

StageStep(from, to) ==
    \/ <<from, to>> \in StageOrder
    \/ from \notin Final /\ to = "Failed"

\* the entry whose request the step sends
Requested == apiLog'[Len(apiLog')].entry

\* C10: an entry's stage changes only along Pending, Reading, Prompting,
\* Awaiting, Writing, Done, or to Failed from a stage that is not final; a
\* request is sent only for an entry in Awaiting and never twice for one
\* entry; a file is written only for an entry in Writing whose summary text
\* has arrived, the .json only once the .md of the same entry is written; and
\* the entries before the current one are final while those after it are
\* Pending.
C10_StagesInOrder ==
    /\ [][ /\ \A i \in (DOMAIN stage) \cap (DOMAIN stage') :
                stage'[i] # stage[i] => StageStep(stage[i], stage'[i])
           /\ apiLog' # apiLog =>
                /\ stage[Requested] = "Awaiting"
                /\ \A k \in 1..Len(apiLog) : apiLog[k].entry # Requested
           /\ outFiles' # outFiles =>
                /\ stage[idx] = "Writing"
                /\ summary \in Summaries
                /\ \A p \in DOMAIN outFiles' :
                      (outFiles'[p].kind = "json" /\ Writers(p) # outFiles'[p].writers) =>
                          \E m \in DOMAIN outFiles :
                              /\ outFiles[m].kind = "md"
                              /\ outFiles[m].writers[Len(outFiles[m].writers)] = idx
                              /\ outFiles[m].data = summary
         ]_vars
    /\ [](\A i \in EntryIds :
            /\ (LoopEntered /\ i < idx) => stage[i] \in Final
            /\ i > idx => stage[i] = "Pending"
            /\ (i = idx /\ pc = "loop") => stage[i] = "Pending")

C10_Witness ==
    /\ pc = "exited"
    /\ Len(files) = 2
    /\ stage = <<"Done", "Failed">>
    /\ Len(apiLog) = 2

====
